---- MODULE Spec2Model ----
(***************************************************************************)
(* Model of programs/metaplex-core-nft/src/lib.rs: an Anchor program with  *)
(* four instructions (create_collection, mint_nft, update_nft,             *)
(* transfer_nft), each validating its accounts struct and then issuing one *)
(* cross-program invocation (CPI) into the Metaplex Core program.          *)
(***************************************************************************)
EXTENDS Integers, Sequences, FiniteSets, TLC

VARIABLES
    assets,       \* Metaplex Core asset accounts: key -> <<>> or <<record>>
    collections,  \* Metaplex Core collection accounts: key -> <<>> or <<record>>
    call,         \* the instruction just processed: op, accounts, args
    steps,        \* phases the instruction went through, in order
    invocations,  \* CPIs issued by the instruction, each with its outcome
    result        \* what the instruction returned to the runtime

vars == <<assets, collections, call, steps, invocations, result>>

-----------------------------------------------------------------------------
(* Values *)

U8Max == 255
U16Modulus == 65536

MPL_CORE_ID == "CoREENxT6tW1HoK8ypY1SxRMZTcVPm7R94rH4PZNhX7d"
SYSTEM_PROGRAM_ID == "11111111111111111111111111111111"
OTHER_PROGRAM == "OtherProgram"

None == <<>>
Some(v) == <<v>>
IsSome(o) == Len(o) = 1
Unwrap(o) == o[1]

Ok == [ok |-> TRUE, err |-> "none"]
Err(e) == [ok |-> FALSE, err |-> e]

AccountInfo(k, s, w) == [key |-> k, is_signer |-> s, is_writable |-> w]

AccountInfos(keys, signer, writable) ==
    { AccountInfo(k, s, w) : k \in keys, s \in signer, w \in writable }

-----------------------------------------------------------------------------
(* The mpl_core CPI builders.  new(program) leaves every optional field    *)
(* unset; each setter fills one field.                                      *)

CpiBuilder(ix, program) ==
    [ix |-> ix, program |-> program.key,
     asset |-> None, collection |-> None, authority |-> None,
     update_authority |-> None, payer |-> None, owner |-> None,
     new_owner |-> None, system_program |-> None,
     name |-> None, uri |-> None, new_name |-> None, new_uri |-> None,
     data_state |-> None, plugins |-> None]

PluginAuthorityPair(plugin, royalties, frozen, authority) ==
    [authority |-> authority, plugin |-> plugin, royalties |-> royalties,
     frozen |-> frozen]

-----------------------------------------------------------------------------
(* Account validation: the #[derive(Accounts)] structs.  Fields are loaded *)
(* in declaration order (Signer and Program checks), then the constraints  *)
(* (mut, address) are checked in declaration order.  The first failure is  *)
(* the instruction's error.                                                *)

FirstError(checks) ==
    IF \E i \in 1..Len(checks) : ~checks[i][1]
    THEN LET i == CHOOSE j \in 1..Len(checks) :
                      /\ ~checks[j][1]
                      /\ \A k \in 1..(j - 1) : checks[k][1]
         IN  Err(checks[i][2])
    ELSE Ok

CreateCollection(ctx) ==
    FirstError(<<
        <<ctx.collection.is_signer, "AccountNotSigner">>,
        <<ctx.authority.is_signer, "AccountNotSigner">>,
        <<ctx.payer.is_signer, "AccountNotSigner">>,
        <<ctx.system_program.key = SYSTEM_PROGRAM_ID, "InvalidProgramId">>,
        <<ctx.collection.is_writable, "ConstraintMut">>,
        <<ctx.payer.is_writable, "ConstraintMut">>,
        <<ctx.mpl_core_program.key = MPL_CORE_ID, "ConstraintAddress">> >>)

\* MintNft with `asset` declared UncheckedAccount instead of Signer.
MintNft_asset_unchecked(ctx) ==
    FirstError(<<
        <<ctx.authority.is_signer, "AccountNotSigner">>,
        <<ctx.payer.is_signer, "AccountNotSigner">>,
        <<ctx.system_program.key = SYSTEM_PROGRAM_ID, "InvalidProgramId">>,
        <<ctx.asset.is_writable, "ConstraintMut">>,
        <<ctx.payer.is_writable, "ConstraintMut">>,
        <<ctx.mpl_core_program.key = MPL_CORE_ID, "ConstraintAddress">> >>)

MintNft(ctx) ==
    FirstError(<<
        <<ctx.asset.is_signer, "AccountNotSigner">>,
        <<ctx.authority.is_signer, "AccountNotSigner">>,
        <<ctx.payer.is_signer, "AccountNotSigner">>,
        <<ctx.system_program.key = SYSTEM_PROGRAM_ID, "InvalidProgramId">>,
        <<ctx.asset.is_writable, "ConstraintMut">>,
        <<ctx.payer.is_writable, "ConstraintMut">>,
        <<ctx.mpl_core_program.key = MPL_CORE_ID, "ConstraintAddress">> >>)

UpdateNft(ctx) ==
    FirstError(<<
        <<ctx.authority.is_signer, "AccountNotSigner">>,
        <<ctx.payer.is_signer, "AccountNotSigner">>,
        <<ctx.asset.is_writable, "ConstraintMut">>,
        <<ctx.payer.is_writable, "ConstraintMut">>,
        <<ctx.mpl_core_program.key = MPL_CORE_ID, "ConstraintAddress">> >>)

\* TransferNft without the address constraint on mpl_core_program.
TransferNft_no_address(ctx) ==
    FirstError(<<
        <<ctx.authority.is_signer, "AccountNotSigner">>,
        <<ctx.payer.is_signer, "AccountNotSigner">>,
        <<ctx.asset.is_writable, "ConstraintMut">>,
        <<ctx.payer.is_writable, "ConstraintMut">> >>)

TransferNft(ctx) ==
    FirstError(<<
        <<ctx.authority.is_signer, "AccountNotSigner">>,
        <<ctx.payer.is_signer, "AccountNotSigner">>,
        <<ctx.asset.is_writable, "ConstraintMut">>,
        <<ctx.payer.is_writable, "ConstraintMut">>,
        <<ctx.mpl_core_program.key = MPL_CORE_ID, "ConstraintAddress">> >>)

-----------------------------------------------------------------------------
(* Handlers: each returns the CPIs it issues, in order. *)

\* (royalty_percentage * 100) as u16: the product taken in u8 arithmetic.
BasisPoints_u8(royalty_percentage) ==
    (royalty_percentage * 100) % (U8Max + 1)

\* (royalty_percentage as u16) * 100, in u16 arithmetic.  A u8 times 100 is
\* at most 25500, so the product never reaches the modulus.
BasisPoints(royalty_percentage) ==
    ((royalty_percentage % U16Modulus) * 100) % U16Modulus

Royalties(ctx, royalty_percentage) ==
    [basis_points |-> BasisPoints(royalty_percentage),
     creators |-> << [address |-> ctx.authority.key, percentage |-> 100] >>,
     rule_set |-> "None"]

CollectionPlugins(ctx, royalty_percentage) ==
    << PluginAuthorityPair("Royalties", Some(Royalties(ctx, royalty_percentage)),
                           None, Some("Owner")) >>

create_collection(ctx, name, uri, royalty_percentage) ==
    << [CpiBuilder("CreateCollectionV1", ctx.mpl_core_program) EXCEPT
            !.collection = Some(ctx.collection.key),
            !.update_authority = Some(ctx.authority.key),
            !.payer = Some(ctx.payer.key),
            !.system_program = Some(ctx.system_program.key),
            !.name = Some(name),
            !.uri = Some(uri),
            !.plugins = Some(CollectionPlugins(ctx, royalty_percentage))] >>

\* The freeze plugin created frozen.
MintPlugins_frozen(add_freeze_plugin) ==
    IF add_freeze_plugin
    THEN << PluginAuthorityPair("FreezeDelegate", None, Some(TRUE), Some("Owner")) >>
    ELSE << >>

\* The freeze plugin pushed whatever the flag.
MintPlugins_always(add_freeze_plugin) ==
    << PluginAuthorityPair("FreezeDelegate", None, Some(FALSE), Some("Owner")) >>

MintPlugins(add_freeze_plugin) ==
    IF add_freeze_plugin
    THEN << PluginAuthorityPair("FreezeDelegate", None, Some(FALSE), Some("Owner")) >>
    ELSE << >>

mint_nft(ctx, name, uri, add_freeze_plugin) ==
    LET plugins == MintPlugins(add_freeze_plugin)
        builder ==
            [CpiBuilder("CreateV1", ctx.mpl_core_program) EXCEPT
                !.asset = Some(ctx.asset.key),
                !.collection = Some(ctx.collection.key),
                !.authority = Some(ctx.authority.key),
                !.payer = Some(ctx.payer.key),
                !.owner = Some(ctx.owner.key),
                !.system_program = Some(ctx.system_program.key),
                !.name = Some(name),
                !.uri = Some(uri),
                !.data_state = Some("AccountState")]
    IN  << IF plugins # << >>
           THEN [builder EXCEPT !.plugins = Some(plugins)]
           ELSE builder >>

\* One CPI per field present, instead of one CPI for the instruction.
update_nft_per_field(ctx, name, uri) ==
    LET builder ==
            [CpiBuilder("UpdateV1", ctx.mpl_core_program) EXCEPT
                !.asset = Some(ctx.asset.key),
                !.collection = Some(ctx.collection.key),
                !.payer = Some(ctx.payer.key),
                !.authority = Some(ctx.authority.key)]
    IN  (IF IsSome(name)
         THEN << [builder EXCEPT !.new_name = Some(Unwrap(name))] >>
         ELSE << >>)
        \o
        (IF IsSome(uri)
         THEN << [builder EXCEPT !.new_uri = Some(Unwrap(uri))] >>
         ELSE << >>)

\* `if let Some(uri) = name`: the uri setter fed from the name argument.
update_nft_uri_from_name(ctx, name, uri) ==
    LET builder ==
            [CpiBuilder("UpdateV1", ctx.mpl_core_program) EXCEPT
                !.asset = Some(ctx.asset.key),
                !.collection = Some(ctx.collection.key),
                !.payer = Some(ctx.payer.key),
                !.authority = Some(ctx.authority.key)]
        named == IF IsSome(name)
                 THEN [builder EXCEPT !.new_name = Some(Unwrap(name))]
                 ELSE builder
    IN  << IF IsSome(name)
           THEN [named EXCEPT !.new_uri = Some(Unwrap(name))]
           ELSE named >>

update_nft(ctx, name, uri) ==
    LET builder ==
            [CpiBuilder("UpdateV1", ctx.mpl_core_program) EXCEPT
                !.asset = Some(ctx.asset.key),
                !.collection = Some(ctx.collection.key),
                !.payer = Some(ctx.payer.key),
                !.authority = Some(ctx.authority.key)]
        named == IF IsSome(name)
                 THEN [builder EXCEPT !.new_name = Some(Unwrap(name))]
                 ELSE builder
    IN  << IF IsSome(uri)
           THEN [named EXCEPT !.new_uri = Some(Unwrap(uri))]
           ELSE named >>

\* new_owner(&ctx.accounts.authority): the wrong account in the new-owner role.
transfer_nft_to_authority(ctx) ==
    << [CpiBuilder("TransferV1", ctx.mpl_core_program) EXCEPT
            !.asset = Some(ctx.asset.key),
            !.collection = Some(ctx.collection.key),
            !.payer = Some(ctx.payer.key),
            !.authority = Some(ctx.authority.key),
            !.new_owner = Some(ctx.authority.key)] >>

transfer_nft(ctx) ==
    << [CpiBuilder("TransferV1", ctx.mpl_core_program) EXCEPT
            !.asset = Some(ctx.asset.key),
            !.collection = Some(ctx.collection.key),
            !.payer = Some(ctx.payer.key),
            !.authority = Some(ctx.authority.key),
            !.new_owner = Some(ctx.new_owner.key)] >>

-----------------------------------------------------------------------------
(* The Metaplex Core program, seen through its instruction interface.  It  *)
(* may reject any instruction; it accepts one only under the conditions     *)
(* below, and then applies the instruction's effect.  A collection's        *)
(* plugins are read by no instruction of this program and are not kept.     *)

ExternalErrors == {"InvalidAuthority", "InvalidAsset"}

AccountFree(ext, k) == ext.assets[k] = None /\ ext.collections[k] = None

HasPlugin(plugins, type) == \E i \in 1..Len(plugins) : plugins[i].plugin = type

MplCoreAccepts(cpi, ext) ==
    /\ cpi.program = MPL_CORE_ID
    /\ CASE cpi.ix = "CreateCollectionV1" ->
                AccountFree(ext, Unwrap(cpi.collection))
         [] cpi.ix = "CreateV1" ->
                /\ AccountFree(ext, Unwrap(cpi.asset))
                /\ ext.collections[Unwrap(cpi.collection)] # None
                /\ Unwrap(ext.collections[Unwrap(cpi.collection)]).update_authority
                       = Unwrap(cpi.authority)
         [] cpi.ix = "UpdateV1" ->
                /\ ext.assets[Unwrap(cpi.asset)] # None
                /\ Unwrap(ext.assets[Unwrap(cpi.asset)]).collection
                       = Unwrap(cpi.collection)
                /\ ext.collections[Unwrap(cpi.collection)] # None
                /\ Unwrap(ext.collections[Unwrap(cpi.collection)]).update_authority
                       = Unwrap(cpi.authority)
         [] cpi.ix = "TransferV1" ->
                /\ ext.assets[Unwrap(cpi.asset)] # None
                /\ Unwrap(ext.assets[Unwrap(cpi.asset)]).collection
                       = Unwrap(cpi.collection)
                /\ Unwrap(ext.assets[Unwrap(cpi.asset)]).owner
                       = Unwrap(cpi.authority)
         [] OTHER -> FALSE

MplCoreApply(cpi, ext) ==
    CASE cpi.ix = "CreateCollectionV1" ->
            [ext EXCEPT !.collections[Unwrap(cpi.collection)] =
                Some([update_authority |-> Unwrap(cpi.update_authority),
                      name |-> Unwrap(cpi.name),
                      uri |-> Unwrap(cpi.uri)])]
      [] cpi.ix = "CreateV1" ->
            [ext EXCEPT !.assets[Unwrap(cpi.asset)] =
                Some([collection |-> Unwrap(cpi.collection),
                      owner |-> Unwrap(cpi.owner),
                      name |-> Unwrap(cpi.name),
                      uri |-> Unwrap(cpi.uri),
                      plugins |-> IF IsSome(cpi.plugins)
                                  THEN Unwrap(cpi.plugins) ELSE << >>])]
      [] cpi.ix = "UpdateV1" ->
            LET a == Unwrap(ext.assets[Unwrap(cpi.asset)])
            IN  [ext EXCEPT !.assets[Unwrap(cpi.asset)] =
                    Some([a EXCEPT
                        !.name = IF IsSome(cpi.new_name)
                                 THEN Unwrap(cpi.new_name) ELSE @,
                        !.uri = IF IsSome(cpi.new_uri)
                                THEN Unwrap(cpi.new_uri) ELSE @])]
      [] cpi.ix = "TransferV1" ->
            LET a == Unwrap(ext.assets[Unwrap(cpi.asset)])
            IN  [ext EXCEPT !.assets[Unwrap(cpi.asset)] =
                    Some([a EXCEPT !.owner = Unwrap(cpi.new_owner)])]

MplCore(cpi, ext) ==
    { [result |-> Err(e), ext |-> ext] : e \in ExternalErrors }
    \cup
    ( IF MplCoreAccepts(cpi, ext)
      THEN { [result |-> Ok, ext |-> MplCoreApply(cpi, ext)] }
      ELSE { } )

-----------------------------------------------------------------------------
(* Running an instruction. *)

\* `let _ = ....invoke();`: the CPI's result dropped.
QuestionMark_ignored(r) == [return |-> FALSE, value |-> r]

\* `.invoke()?`: an error from the CPI ends the handler with that error.
QuestionMark(r) == [return |-> ~r.ok, value |-> r]

\* The handler's CPIs in order, then Ok(()).  Every possible run is a record
\* of the CPIs issued with their outcomes, the handler's result, and the
\* accounts as the Metaplex Core program left them.
RECURSIVE Invoke(_, _)
Invoke(cpis, ext) ==
    IF cpis = << >>
    THEN { [result |-> Ok, ext |-> ext, log |-> << >>] }
    ELSE UNION {
            LET entry == [result |-> o.result, cpi |-> Head(cpis)]
                q == QuestionMark(o.result)
            IN  IF q.return
                THEN { [result |-> q.value, ext |-> o.ext, log |-> << entry >>] }
                ELSE { [result |-> r.result, ext |-> r.ext,
                        log |-> << entry >> \o r.log]
                       : r \in Invoke(Tail(cpis), o.ext) }
            : o \in MplCore(Head(cpis), ext) }

\* The entry point: validate the accounts struct, then run the handler.  A
\* failed instruction fails its transaction, which leaves no account changed.
Process(validation, cpis) ==
    IF ~validation.ok
    THEN /\ steps' = << "validate" >>
         /\ invocations' = << >>
         /\ result' = validation
         /\ UNCHANGED <<assets, collections>>
    ELSE \E run \in Invoke(cpis, [assets |-> assets, collections |-> collections]) :
            /\ steps' = << "validate", "translate" >>
                            \o [i \in 1..Len(run.log) |-> "invoke"]
            /\ invocations' = run.log
            /\ result' = run.result
            /\ IF run.result.ok
               THEN assets' = run.ext.assets /\ collections' = run.ext.collections
               ELSE UNCHANGED <<assets, collections>>

-----------------------------------------------------------------------------
(* The sets the accounts and the instruction data of a transaction are     *)
(* drawn from.                                                              *)

AccountKeys == {"asset1", "coll1"}

\* How many wallets take the authority, owner and new-owner roles.
NumWallets == 2

WalletNames == << "alice", "bob", "carol", "dave" >>

Wallets == { WalletNames[i] : i \in 1..NumWallets }

\* Well-formed transactions among the wallets: the life of a collection and
\* its asset.
Lifecycle ==
    [collection_keys |-> {"coll1"}, asset_keys |-> {"asset1"},
     wallets |-> Wallets, payers |-> {"alice"},
     signers |-> {TRUE}, writables |-> {TRUE},
     system_programs |-> {SYSTEM_PROGRAM_ID}, programs |-> {MPL_CORE_ID},
     collection_names |-> {"Genesis"}, collection_uris |-> {"uri0"},
     percentages |-> {5},
     names |-> {"Item #1", "Item #2"}, uris |-> {"uri1", "uri2"},
     freeze |-> BOOLEAN]

\* Every combination of signer and writable flags and of program accounts.
Structural ==
    [collection_keys |-> {"coll1"}, asset_keys |-> {"asset1"},
     wallets |-> {"alice"}, payers |-> {"alice"},
     signers |-> BOOLEAN, writables |-> BOOLEAN,
     system_programs |-> {SYSTEM_PROGRAM_ID, OTHER_PROGRAM},
     programs |-> {MPL_CORE_ID, OTHER_PROGRAM},
     collection_names |-> {"Genesis"}, collection_uris |-> {"uri0"},
     percentages |-> {5},
     names |-> {"Item #1"}, uris |-> {"uri1"},
     freeze |-> {TRUE}]

\* Every royalty percentage a u8 holds.
Royalty ==
    [collection_keys |-> {"coll1"}, asset_keys |-> {"asset1"},
     wallets |-> {"alice"}, payers |-> {"payer"},
     signers |-> {TRUE}, writables |-> {TRUE},
     system_programs |-> {SYSTEM_PROGRAM_ID}, programs |-> {MPL_CORE_ID},
     collection_names |-> {"Genesis"}, collection_uris |-> {"uri0"},
     percentages |-> 0..U8Max,
     names |-> {"Item #1"}, uris |-> {"uri1"},
     freeze |-> {TRUE}]

Unchecked(keys) == AccountInfos(keys, {FALSE}, {FALSE})

-----------------------------------------------------------------------------
(* Instructions a client can submit. *)

CreateCollectionCall(U) ==
    \E collection \in AccountInfos(U.collection_keys, U.signers, U.writables),
       authority \in AccountInfos(U.wallets, U.signers, {FALSE}),
       payer \in AccountInfos(U.payers, U.signers, U.writables),
       system_program \in Unchecked(U.system_programs),
       mpl_core_program \in Unchecked(U.programs),
       name \in U.collection_names, uri \in U.collection_uris,
       royalty_percentage \in U.percentages :
        LET ctx == [collection |-> collection, authority |-> authority,
                    payer |-> payer, system_program |-> system_program,
                    mpl_core_program |-> mpl_core_program]
        IN  /\ call' = [op |-> "create_collection", accounts |-> ctx,
                        args |-> [name |-> name, uri |-> uri,
                                  royalty_percentage |-> royalty_percentage]]
            /\ Process(CreateCollection(ctx),
                       create_collection(ctx, name, uri, royalty_percentage))

MintNftCall(U) ==
    \E asset \in AccountInfos(U.asset_keys, U.signers, U.writables),
       collection \in Unchecked(U.collection_keys),
       authority \in AccountInfos(U.wallets, U.signers, {FALSE}),
       owner \in Unchecked(U.wallets),
       payer \in AccountInfos(U.payers, U.signers, U.writables),
       system_program \in Unchecked(U.system_programs),
       mpl_core_program \in Unchecked(U.programs),
       name \in U.names, uri \in U.uris, add_freeze_plugin \in U.freeze :
        LET ctx == [asset |-> asset, collection |-> collection,
                    authority |-> authority, payer |-> payer, owner |-> owner,
                    system_program |-> system_program,
                    mpl_core_program |-> mpl_core_program]
        IN  /\ call' = [op |-> "mint_nft", accounts |-> ctx,
                        args |-> [name |-> name, uri |-> uri,
                                  add_freeze_plugin |-> add_freeze_plugin]]
            /\ Process(MintNft(ctx), mint_nft(ctx, name, uri, add_freeze_plugin))

UpdateNftCall(U) ==
    \E asset \in AccountInfos(U.asset_keys, {FALSE}, U.writables),
       collection \in Unchecked(U.collection_keys),
       authority \in AccountInfos(U.wallets, U.signers, {FALSE}),
       payer \in AccountInfos(U.payers, U.signers, U.writables),
       mpl_core_program \in Unchecked(U.programs),
       name \in {None} \cup {Some(n) : n \in U.names},
       uri \in {None} \cup {Some(u) : u \in U.uris} :
        LET ctx == [asset |-> asset, collection |-> collection,
                    authority |-> authority, payer |-> payer,
                    mpl_core_program |-> mpl_core_program]
        IN  /\ call' = [op |-> "update_nft", accounts |-> ctx,
                        args |-> [name |-> name, uri |-> uri]]
            /\ Process(UpdateNft(ctx), update_nft(ctx, name, uri))

TransferNftCall(U) ==
    \E asset \in AccountInfos(U.asset_keys, {FALSE}, U.writables),
       collection \in Unchecked(U.collection_keys),
       authority \in AccountInfos(U.wallets, U.signers, {FALSE}),
       new_owner \in Unchecked(U.wallets),
       payer \in AccountInfos(U.payers, U.signers, U.writables),
       mpl_core_program \in Unchecked(U.programs) :
        LET ctx == [asset |-> asset, collection |-> collection,
                    authority |-> authority, payer |-> payer,
                    new_owner |-> new_owner,
                    mpl_core_program |-> mpl_core_program]
        IN  /\ call' = [op |-> "transfer_nft", accounts |-> ctx,
                        args |-> [none |-> TRUE]]
            /\ Process(TransferNft(ctx), transfer_nft(ctx))

-----------------------------------------------------------------------------
(* Specifications *)

Init ==
    /\ assets = [k \in AccountKeys |-> None]
    /\ collections = [k \in AccountKeys |-> None]
    /\ call = [op |-> "none", accounts |-> [none |-> TRUE],
               args |-> [none |-> TRUE]]
    /\ steps = << >>
    /\ invocations = << >>
    /\ result = Ok

Next ==
    \/ CreateCollectionCall(Lifecycle)
    \/ MintNftCall(Lifecycle)
    \/ UpdateNftCall(Lifecycle)
    \/ TransferNftCall(Lifecycle)

Spec == Init /\ [][Next]_vars

NextStructural ==
    \/ CreateCollectionCall(Structural)
    \/ MintNftCall(Structural)
    \/ UpdateNftCall(Structural)
    \/ TransferNftCall(Structural)

SpecStructural == Init /\ [][NextStructural]_vars

NextRoyalty ==
    \/ CreateCollectionCall(Royalty)

SpecRoyalty == Init /\ [][NextRoyalty]_vars

-----------------------------------------------------------------------------
(* Properties *)

Called(op) == call.op = op

\* The accounts struct of the instruction just processed, re-checked.
Validation ==
    CASE Called("create_collection") -> CreateCollection(call.accounts)
      [] Called("mint_nft") -> MintNft(call.accounts)
      [] Called("update_nft") -> UpdateNft(call.accounts)
      [] Called("transfer_nft") -> TransferNft(call.accounts)
      [] OTHER -> Ok

\* The accounts the instruction requires as co-signers.
RequiredSigners ==
    CASE Called("create_collection") ->
            {call.accounts.collection, call.accounts.authority, call.accounts.payer}
      [] Called("mint_nft") ->
            {call.accounts.asset, call.accounts.authority, call.accounts.payer}
      [] Called("update_nft") -> {call.accounts.authority, call.accounts.payer}
      [] Called("transfer_nft") -> {call.accounts.authority, call.accounts.payer}
      [] OTHER -> {}

Translated == \E i \in 1..Len(steps) : steps[i] = "translate"

\* C1: every instruction issues exactly one CPI when its accounts validate
\* (translation cannot fail), none when validation fails, and never two.
C1_OneInvocationOrNone ==
    ~Called("none") =>
        /\ Len(invocations) <= 1
        /\ Validation.ok => Len(invocations) = 1
        /\ ~Validation.ok => invocations = << >> /\ ~result.ok

C1_Witness ==
    /\ Called("update_nft")
    /\ Validation.ok
    /\ Len(invocations) = 1
    /\ ~invocations[1].result.ok

\* C2: an instruction whose mpl_core_program account is not MPL_CORE_ID fails
\* before translation and issues no CPI, whatever its other accounts are.
C2_WrongProgramRejected ==
    (~Called("none") /\ call.accounts.mpl_core_program.key # MPL_CORE_ID) =>
        /\ ~result.ok
        /\ ~Translated
        /\ invocations = << >>

C2_Witness ==
    /\ Called("transfer_nft")
    /\ call.accounts.mpl_core_program.key = OTHER_PROGRAM
    /\ \A a \in RequiredSigners : a.is_signer
    /\ result = Err("ConstraintAddress")
    /\ steps = << "validate" >>

\* C10: a CPI is issued only if every required co-signer signed; an
\* instruction missing one fails before translation with no CPI.
C10_SignersRequired ==
    /\ invocations # << >> => \A a \in RequiredSigners : a.is_signer
    /\ (\E a \in RequiredSigners : ~a.is_signer) =>
            /\ ~result.ok
            /\ ~Translated
            /\ invocations = << >>

C10_Witness ==
    /\ Called("mint_nft")
    /\ ~call.accounts.asset.is_signer
    /\ call.accounts.authority.is_signer
    /\ call.accounts.payer.is_signer
    /\ call.accounts.mpl_core_program.key = MPL_CORE_ID
    /\ result = Err("AccountNotSigner")
    /\ invocations = << >>

\* C3: for a royalty percentage p in 0..100 and authority A, the one CPI of
\* create_collection carries a Royalties plugin with basis points exactly
\* 100 * p, the single creator {A, 100}, no rule set and plugin authority
\* Owner; the collection's update authority is A.
C3_RoyaltyTranslation ==
    ( /\ Called("create_collection")
      /\ Validation.ok
      /\ call.args.royalty_percentage <= 100 ) =>
        /\ Len(invocations) = 1
        /\ invocations[1].cpi.ix = "CreateCollectionV1"
        /\ invocations[1].cpi.plugins =
            Some(<< [authority |-> Some("Owner"),
                     plugin |-> "Royalties",
                     royalties |-> Some(
                        [basis_points |-> 100 * call.args.royalty_percentage,
                         creators |-> << [address |-> call.accounts.authority.key,
                                          percentage |-> 100] >>,
                         rule_set |-> "None"]),
                     frozen |-> None] >>)
        /\ invocations[1].cpi.update_authority = Some(call.accounts.authority.key)

C3_Witness ==
    /\ Called("create_collection")
    /\ call.args.royalty_percentage = 5
    /\ result.ok
    /\ Len(invocations) = 1
    /\ Unwrap(Unwrap(invocations[1].cpi.plugins)[1].royalties).basis_points = 500
    /\ collections["coll1"] # None

\* C4: every CPI create_collection issues carries at most 10000 basis points
\* (a royalty of at most 100%).
C4_RoyaltyAtMost100Percent ==
    \A i \in 1..Len(invocations) :
        invocations[i].cpi.ix = "CreateCollectionV1" =>
            Unwrap(Unwrap(invocations[i].cpi.plugins)[1].royalties).basis_points
                <= 100 * 100

\* The account a plugin's authority designates on a CreateV1: for
\* PluginAuthority::Owner, the owner of the asset.
PluginHolder(pair, cpi) ==
    IF pair.authority = Some("Owner") THEN cpi.owner ELSE None

MintPassThrough(cpi) ==
    /\ cpi.ix = "CreateV1"
    /\ cpi.program = MPL_CORE_ID
    /\ cpi.asset = Some(call.accounts.asset.key)
    /\ cpi.collection = Some(call.accounts.collection.key)
    /\ cpi.authority = Some(call.accounts.authority.key)
    /\ cpi.owner = Some(call.accounts.owner.key)
    /\ cpi.payer = Some(call.accounts.payer.key)
    /\ cpi.name = Some(call.args.name)
    /\ cpi.uri = Some(call.args.uri)

\* C5 (as amended): a mint_nft with the freeze flag set carries exactly one
\* plugin, a FreezeDelegate that is not frozen and whose authority is the
\* Owner role, that is the asset's owner account; without the flag the CPI
\* carries no plugin.  Name, uri and the accounts pass through unchanged.
C5_MintFreezePlugin ==
    (Called("mint_nft") /\ Validation.ok) =>
        /\ Len(invocations) = 1
        /\ MintPassThrough(invocations[1].cpi)
        /\ IF call.args.add_freeze_plugin
           THEN /\ invocations[1].cpi.plugins =
                        Some(<< [authority |-> Some("Owner"),
                                 plugin |-> "FreezeDelegate",
                                 royalties |-> None,
                                 frozen |-> Some(FALSE)] >>)
                /\ PluginHolder(Unwrap(invocations[1].cpi.plugins)[1],
                                invocations[1].cpi)
                       = Some(call.accounts.owner.key)
           ELSE invocations[1].cpi.plugins = None

C5_Witness ==
    /\ Called("mint_nft")
    /\ call.args.add_freeze_plugin
    /\ call.accounts.authority.key = "alice"
    /\ call.accounts.owner.key = "bob"
    /\ result.ok
    /\ assets["asset1"] # None
    /\ HasPlugin(Unwrap(assets["asset1"]).plugins, "FreezeDelegate")

\* C5 as stated: the freeze plugin of a mint_nft with the flag set is held by
\* the authority account.
C5_FreezePluginHeldByAuthority ==
    (Called("mint_nft") /\ Validation.ok /\ call.args.add_freeze_plugin) =>
        /\ Len(invocations) = 1
        /\ IsSome(invocations[1].cpi.plugins)
        /\ \A i \in 1..Len(Unwrap(invocations[1].cpi.plugins)) :
              PluginHolder(Unwrap(invocations[1].cpi.plugins)[i], invocations[1].cpi)
                  = Some(call.accounts.authority.key)

-----------------------------------------------------------------------------
(* Properties of one instruction: the accounts before it and after it. *)

UpdateStep ==
    (call'.op = "update_nft" /\ UpdateNft(call'.accounts).ok) =>
        /\ Len(invocations') = 1
        /\ invocations'[1].cpi.ix = "UpdateV1"
        /\ invocations'[1].cpi.asset = Some(call'.accounts.asset.key)
        /\ invocations'[1].cpi.new_name = call'.args.name
        /\ invocations'[1].cpi.new_uri = call'.args.uri
        /\ result'.ok =>
              /\ assets[call'.accounts.asset.key] # None
              /\ assets'[call'.accounts.asset.key] =
                   Some([Unwrap(assets[call'.accounts.asset.key]) EXCEPT
                            !.name = IF IsSome(call'.args.name)
                                     THEN Unwrap(call'.args.name) ELSE @,
                            !.uri = IF IsSome(call'.args.uri)
                                    THEN Unwrap(call'.args.uri) ELSE @])

\* C6: the UpdateV1 CPI of update_nft carries a new name exactly when name is
\* present and a new uri exactly when uri is present, each with the caller's
\* value; with both absent it is still issued, with neither set; and a
\* successful update changes only the fields that were present.
C6_UpdateOnlyPresentFields == [][UpdateStep]_vars

C6_Witness ==
    /\ Called("update_nft")
    /\ call.args.name = Some("Item #2")
    /\ call.args.uri = None
    /\ result.ok
    /\ invocations[1].cpi.new_uri = None
    /\ Unwrap(assets["asset1"]).name = "Item #2"
    /\ Unwrap(assets["asset1"]).uri = "uri1"

TransferStep ==
    (call'.op = "transfer_nft" /\ TransferNft(call'.accounts).ok) =>
        /\ Len(invocations') = 1
        /\ invocations'[1].cpi.ix = "TransferV1"
        /\ invocations'[1].cpi.asset = Some(call'.accounts.asset.key)
        /\ invocations'[1].cpi.collection = Some(call'.accounts.collection.key)
        /\ invocations'[1].cpi.new_owner = Some(call'.accounts.new_owner.key)
        /\ invocations'[1].cpi.authority = Some(call'.accounts.authority.key)
        /\ call'.accounts.authority.is_signer
        /\ result'.ok =>
              /\ assets'[call'.accounts.asset.key] # None
              /\ Unwrap(assets'[call'.accounts.asset.key]).owner
                    = call'.accounts.new_owner.key
        /\ ( \/ assets[call'.accounts.asset.key] = None
             \/ Unwrap(assets[call'.accounts.asset.key]).owner
                    # call'.accounts.authority.key ) =>
              /\ ~result'.ok
              /\ assets' = assets

\* C7: the TransferV1 CPI of transfer_nft names the new_owner account as new
\* owner and the authority account as signing authority, for the
\* instruction's asset and collection; a successful transfer leaves the asset
\* owned by new_owner, and the transfer fails, owner unchanged, when the
\* authority is not the asset's current owner.
C7_TransferOwnership == [][TransferStep]_vars

C7_Witness ==
    /\ Called("transfer_nft")
    /\ call.accounts.authority.key = "alice"
    /\ call.accounts.new_owner.key = "bob"
    /\ result.ok
    /\ Unwrap(assets["asset1"]).owner = "bob"

FailureStep ==
    /\ \A i \in 1..Len(invocations') :
          ~invocations'[i].result.ok =>
              /\ i = Len(invocations')
              /\ result' = invocations'[i].result
              /\ assets' = assets
              /\ collections' = collections
    /\ ( /\ invocations' # << >>
         /\ \A i \in 1..Len(invocations') : invocations'[i].result.ok ) =>
            result'.ok

\* C8: when the CPI of an instruction fails with error e the instruction
\* returns e, issues no further CPI, and leaves every asset and collection as
\* it was; when the CPI succeeds the instruction returns success.
C8_FailurePropagated == [][FailureStep]_vars

C8_Witness ==
    /\ Called("mint_nft")
    /\ Len(invocations) = 1
    /\ invocations[1].result = Err("InvalidAsset")
    /\ result = Err("InvalidAsset")
    /\ collections["coll1"] # None
    /\ assets["asset1"] = None

HasFreezeIn(accounts, k) ==
    accounts[k] # None /\ HasPlugin(Unwrap(accounts[k]).plugins, "FreezeDelegate")

HasFreeze(k) == HasFreezeIn(assets, k)

NoFreezeStep ==
    /\ ( /\ call'.op = "mint_nft"
         /\ result'.ok
         /\ ~call'.args.add_freeze_plugin ) =>
            ~HasFreezeIn(assets', call'.accounts.asset.key)
    /\ \A k \in AccountKeys :
          (assets[k] # None /\ ~HasFreeze(k)) =>
              (assets'[k] # None /\ ~HasFreezeIn(assets', k))
    /\ call'.op \in {"update_nft", "transfer_nft"} =>
          \A i \in 1..Len(invocations') : invocations'[i].cpi.plugins = None

\* C9: an asset minted without the freeze flag has no freeze plugin, and no
\* later instruction gives it one: update_nft and transfer_nft carry no
\* plugin in their CPIs.
C9_NoFreezeThereafter == [][NoFreezeStep]_vars

C9_Witness ==
    /\ Called("transfer_nft")
    /\ result.ok
    /\ assets["asset1"] # None
    /\ ~HasFreeze("asset1")
    /\ invocations[1].cpi.plugins = None

====
